---- MODULE Spec2Model ----
(***************************************************************************)
(* Model of ncci/tbme.py: generate_tbme(task, postfix), the compiler of    *)
(* an h2mixer input script from a task dictionary.                         *)
(*                                                                         *)
(* Encoding of Python values:                                              *)
(*   None (and any empty tuple/list/dict)        <<>>                      *)
(*   a tuple (N1, N2) of numbers                 <<"pair", N1, N2>>        *)
(*   a tagged tuple ("ob", N) / ("tb", N)        <<"ob", N>> / <<"tb", N>> *)
(*   an ordered mapping source-id -> coefficient a sequence of             *)
(*                                               <<source, coefficient>>   *)
(*   a list of (key, value) tuples               a sequence of <<k, v>>    *)
(*   a script line                               a tuple whose first       *)
(*                                               element is its keyword    *)
(***************************************************************************)
EXTENDS Integers, Sequences, FiniteSets, TLC

VARIABLES
    task,              \* the task dictionary (tbme.py:35)
    pc,                \* the position in the body of generate_tbme
    targets,           \* targets, an OrderedDict (tbme.py:69)
    required_sources,  \* the set of required sources (tbme.py:116)
    tbme_sources,      \* id -> TwoBodyOperatorSource (tbme.py:180)
    lines,             \* the accumulated h2mixer input lines (tbme.py:120)
    raised,            \* the exception that ended the call, if any
    h2mixer_file,      \* the diagnostic file written (tbme.py:252), or None
    work_dir,          \* the work directory has been created (tbme.py:255)
    h2mixer_stdin      \* the input h2mixer was invoked with (tbme.py:258), or None

vars == <<task, pc, targets, required_sources, tbme_sources, lines,
          raised, h2mixer_file, work_dir, h2mixer_stdin>>

None == <<>>

(***************************************************************************)
(* Bounds of the input space.                                              *)
(***************************************************************************)
MaxParam == 1
MaxObs == 2
MaxUserSources == 2

postfix == ""

(***************************************************************************)
(* Python's sorted() over source-id strings: code-point order.             *)
(***************************************************************************)
SourceOrder == <<"J2", "L2", "S2", "Sn2", "Sp2", "T2", "Uksqr", "Ursqr",
                 "VC_unscaled", "VNN", "Vk1k2", "Vr1r2", "Vuser", "identity">>

Rank(id) == CHOOSE i \in 1..Len(SourceOrder) : SourceOrder[i] = id

RECURSIVE sorted(_)
sorted(S) ==
    IF S = {} THEN <<>>
    ELSE LET m == CHOOSE x \in S : \A y \in S : Rank(x) <= Rank(y)
         IN  <<m>> \o sorted(S \ {m})

(***************************************************************************)
(* Ordered mappings (collections.OrderedDict, dict of an operator).        *)
(***************************************************************************)
keys(m) == {m[i][1] : i \in 1..Len(m)}

\* m[k] = v : replace in place when k is present, append otherwise
setitem(m, k, v) ==
    IF k \in keys(m)
    THEN [i \in 1..Len(m) |-> IF m[i][1] = k THEN <<k, v>> ELSE m[i]]
    ELSE Append(m, <<k, v>>)

(***************************************************************************)
(* operators module: the mixer's built-in sources and the constructors of  *)
(* the standard operators.  Constructors emit no zero term; a coefficient  *)
(* of 1 stands for the (nonzero) physical factor.                          *)
(***************************************************************************)
k_h2mixer_builtin_operators ==
    {"identity", "Ursqr", "Vr1r2", "Uksqr", "Vk1k2",
     "L2", "Sp2", "Sn2", "S2", "J2", "T2"}

TwoBodyOperator(operator) == operator

Trel == << <<"Uksqr", 1>>, <<"Vk1k2", 1>> >>
Tcm == << <<"Uksqr", 1>>, <<"Vk1k2", 1>> >>
Ncm == << <<"Ursqr", 1>>, <<"Vr1r2", 1>>, <<"Uksqr", 1>>, <<"Vk1k2", 1>>,
          <<"identity", 1>> >>
rrel2 == << <<"Ursqr", 1>>, <<"Vr1r2", 1>> >>
VNN == << <<"VNN", 1>> >>
VC == << <<"VC_unscaled", 1>> >>
L2 == << <<"L2", 1>> >>
Sp2 == << <<"Sp2", 1>> >>
Sn2 == << <<"Sn2", 1>> >>
S2 == << <<"S2", 1>> >>
J2 == << <<"J2", 1>> >>
T2 == << <<"T2", 1>> >>

Hamiltonian(use_coulomb) ==
    << <<"Uksqr", 1>>, <<"Vk1k2", 1>>, <<"Ursqr", 1>>, <<"Vr1r2", 1>>,
       <<"identity", 1>>, <<"VNN", 1>> >>
    \o (IF use_coulomb THEN << <<"VC_unscaled", 1>> >> ELSE <<>>)

\* operators.TwoBodyOperatorSource(filename, xform_filename, xform_truncation)
TwoBodyOperatorSource(filename, xform_filename, xform_truncation) ==
    [filename |-> filename, xform_filename |-> xform_filename,
     xform_truncation |-> xform_truncation]

get_h2mixer_line(source, id) == <<"define-source", id, source>>

(***************************************************************************)
(* environ module (file naming service) and utils.weight_max_string.       *)
(***************************************************************************)
interaction_filename(interaction, truncation, hw) ==
    <<"interaction", interaction, truncation, hw>>

radial_olap_int_filename(pf) == <<"radial-olap-int", pf>>

radial_olap_coul_filename(pf) == <<"radial-olap-coul", pf>>

orbitals_filename(pf) == <<"orbitals", pf>>

weight_max_string(truncation) == <<"weight_max", truncation>>

(***************************************************************************)
(* generate_tbme: parameters extracted for convenience.                    *)
(***************************************************************************)
NoError == ""

A(t) == t.nuclide[1] + t.nuclide[2]

xform_truncation_int(t) ==
    IF t.xform_truncation_int = None THEN t.truncation_int
    ELSE t.xform_truncation_int

xform_truncation_coul(t) ==
    IF t.xform_truncation_coul = None THEN t.truncation_coul
    ELSE t.xform_truncation_coul

(***************************************************************************)
(* Sanity check on hw.                                                     *)
(***************************************************************************)
HwInconsistent_AnyMode(t) == t.hw # t.hw_int

HwInconsistent(t) == t.basis_mode = "kDirect" /\ t.hw # t.hw_int

(***************************************************************************)
(* Accumulation of the h2mixer targets: an ordered mapping from target     *)
(* name to operator.                                                       *)
(***************************************************************************)
tbme(basename) == <<"tbme-", basename>>

RECURSIVE AccumulateObservables(_, _)
AccumulateObservables(tg, obs) ==
    IF obs = <<>> THEN tg
    ELSE AccumulateObservables(
             setitem(tg, tbme(Head(obs)[1]), TwoBodyOperator(Head(obs)[2])),
             Tail(obs))

RECURSIVE SetAll(_, _)
SetAll(tg, items) ==
    IF items = <<>> THEN tg
    ELSE SetAll(setitem(tg, Head(items)[1], Head(items)[2]), Tail(items))

Targets(t) ==
    LET tH   == << <<tbme("H"),
                     IF t.hamiltonian # None THEN t.hamiltonian
                     ELSE Hamiltonian(t.use_coulomb)>> >>
        tObs == AccumulateObservables(tH, t.tb_observables)
        tR   == IF tbme("rrel2") \notin keys(tObs)
                THEN setitem(tObs, tbme("rrel2"), rrel2) ELSE tObs
        tN   == IF tbme("Ncm") \notin keys(tR)
                THEN setitem(tR, tbme("Ncm"), Ncm) ELSE tR
        tHc  == IF "H-components" \in t.observable_sets
                THEN SetAll(tN, << <<tbme("Trel"), Trel>>, <<tbme("Tcm"), Tcm>>,
                                   <<tbme("VNN"), VNN>> >>
                                \o (IF t.use_coulomb
                                    THEN << <<tbme("VC"), VC>> >> ELSE <<>>))
                ELSE tN
        tAm  == IF "am-sqr" \in t.observable_sets
                THEN SetAll(tHc, << <<tbme("L2"), L2>>, <<tbme("Sp2"), Sp2>>,
                                    <<tbme("Sn2"), Sn2>>, <<tbme("S2"), S2>>,
                                    <<tbme("J2"), J2>> >>)
                ELSE tHc
    IN  IF "isospin" \in t.observable_sets
        THEN setitem(tAm, tbme("T2"), T2) ELSE tAm

\* the set of required sources
RequiredSources_WithUser(tg, t) ==
    UNION {keys(tg[i][2]) : i \in 1..Len(tg)} \cup keys(t.tbme_sources)

RequiredSources(tg, t) == UNION {keys(tg[i][2]) : i \in 1..Len(tg)}

(***************************************************************************)
(* Global mode definitions: the bound of the set-target-indexing line.     *)
(* The result is [raised, value]: the exception raised, if any, and the    *)
(* string produced by utils.weight_max_string otherwise.                   *)
(***************************************************************************)
Value(v) == [raised |-> NoError, value |-> v]

Raise(e) == [raised |-> e, value |-> None]

min(a, b) == IF a <= b THEN a ELSE b

AutomaticTruncation_NoCap(t) ==
    LET tp == t.truncation_parameters IN
    IF t.sp_truncation_mode = "kNmax"
    THEN IF t.mb_truncation_mode = "kNmax"
         THEN IF {"Nv", "Nmax"} \subseteq DOMAIN tp
              THEN Value(weight_max_string(
                       <<"pair", tp["Nv"] + tp["Nmax"], 2*tp["Nv"] + tp["Nmax"]>>))
              ELSE Raise("KeyError")
         ELSE IF t.mb_truncation_mode = "kFCI"
         THEN IF "Nmax" \in DOMAIN tp
              THEN Value(weight_max_string(<<"ob", tp["Nmax"]>>))
              ELSE Raise("KeyError")
         ELSE Raise("ScriptError")
    ELSE IF t.mb_truncation_mode = "kFCI"
         THEN IF "sp_weight_max" \in DOMAIN tp
              THEN Value(weight_max_string(<<"ob", tp["sp_weight_max"]>>))
              ELSE Raise("KeyError")
         ELSE IF {"sp_weight_max", "mb_weight_max"} \subseteq DOMAIN tp
              THEN Value(weight_max_string(
                       <<"pair", tp["sp_weight_max"], tp["mb_weight_max"]>>))
              ELSE Raise("KeyError")

AutomaticTruncation(t) ==
    LET tp == t.truncation_parameters IN
    IF t.sp_truncation_mode = "kNmax"
    THEN IF t.mb_truncation_mode = "kNmax"
         THEN IF {"Nv", "Nmax"} \subseteq DOMAIN tp
              THEN Value(weight_max_string(
                       <<"pair", tp["Nv"] + tp["Nmax"], 2*tp["Nv"] + tp["Nmax"]>>))
              ELSE Raise("KeyError")
         ELSE IF t.mb_truncation_mode = "kFCI"
         THEN IF "Nmax" \in DOMAIN tp
              THEN Value(weight_max_string(<<"ob", tp["Nmax"]>>))
              ELSE Raise("KeyError")
         ELSE Raise("ScriptError")
    ELSE IF t.mb_truncation_mode = "kFCI"
         THEN IF "sp_weight_max" \in DOMAIN tp
              THEN Value(weight_max_string(<<"ob", tp["sp_weight_max"]>>))
              ELSE Raise("KeyError")
         ELSE IF {"sp_weight_max", "mb_weight_max"} \subseteq DOMAIN tp
              THEN Value(weight_max_string(
                       <<"pair", tp["sp_weight_max"],
                         min(tp["mb_weight_max"], 2*tp["sp_weight_max"])>>))
              ELSE Raise("KeyError")

\* the automatic derivation evaluated before the given value is looked at
TargetWeightMax_ResolveFirst(t) ==
    LET r == AutomaticTruncation(t) IN
    IF r.raised # NoError \/ t.target_truncation = None THEN r
    ELSE Value(weight_max_string(t.target_truncation))

TargetWeightMax(t) ==
    IF t.target_truncation = None
    THEN AutomaticTruncation(t)
    ELSE Value(weight_max_string(t.target_truncation))

(***************************************************************************)
(* Sources: the defaults of the required ids (built-ins, VNN, Coulomb),    *)
(* as a mapping id -> TwoBodyOperatorSource.                               *)
(***************************************************************************)
VNN_filename(t) ==
    IF t.interaction_file = None
    THEN interaction_filename(t.interaction, t.truncation_int, t.hw_int)
    ELSE t.interaction_file

VC_filename(t) ==
    IF t.coulomb_file = None
    THEN interaction_filename("VC", t.truncation_coul, t.hw_coul)
    ELSE t.coulomb_file

VNN_source(t) ==
    IF t.basis_mode = "kDirect"
    THEN TwoBodyOperatorSource(VNN_filename(t), None, None)
    ELSE TwoBodyOperatorSource(VNN_filename(t),
                               radial_olap_int_filename(postfix),
                               xform_truncation_int(t))

VC_unscaled_source_AsVNN(t) ==
    IF t.basis_mode = "kDirect"
    THEN TwoBodyOperatorSource(VC_filename(t), None, None)
    ELSE TwoBodyOperatorSource(VC_filename(t),
                               radial_olap_coul_filename(postfix),
                               xform_truncation_coul(t))

VC_unscaled_source(t) ==
    IF t.basis_mode \in {"kDirect", "kDilated"}
    THEN TwoBodyOperatorSource(VC_filename(t), None, None)
    ELSE TwoBodyOperatorSource(VC_filename(t),
                               radial_olap_coul_filename(postfix),
                               xform_truncation_coul(t))

DefaultSources(t, required) ==
    [id \in (k_h2mixer_builtin_operators \cap required)
            \cup ({"VNN", "VC_unscaled"} \cap required) |->
        IF id = "VNN" THEN VNN_source(t)
        ELSE IF id = "VC_unscaled" THEN VC_unscaled_source(t)
        ELSE TwoBodyOperatorSource(None, None, None)]

\* an override merged into the descriptor already present
SetSource_Merge(srcs, id, source) ==
    [k \in DOMAIN srcs \cup {id} |->
        IF k # id THEN srcs[k]
        ELSE IF id \notin DOMAIN srcs THEN source
        ELSE [f \in DOMAIN source |->
                 IF source[f] = None THEN srcs[id][f] ELSE source[f]]]

\* tbme_sources[id] = source
SetSource(srcs, id, source) ==
    [k \in DOMAIN srcs \cup {id} |-> IF k = id THEN source ELSE srcs[k]]

RECURSIVE ApplyUserSources(_, _)
ApplyUserSources(srcs, user) ==
    IF user = <<>> THEN srcs
    ELSE ApplyUserSources(SetSource(srcs, Head(user)[1], Head(user)[2]),
                          Tail(user))

(***************************************************************************)
(* Script lines.                                                           *)
(***************************************************************************)
Blank == <<"">>

HeaderLines == << <<"# task">>, Blank >>

GlobalLines(t, target_weight_max) ==
    << <<"set-target-indexing", orbitals_filename(postfix), target_weight_max>>,
       <<"set-target-multipolarity", 0, 0, 0>>,
       <<"set-output-format", t.h2_format>>,
       <<"set-mass", A(t)>>,
       Blank >>

RadialLines ==
    << <<"define-radial-operator", "r", 1>>, <<"define-radial-operator", "r", 2>>,
       <<"define-radial-operator", "k", 1>>, <<"define-radial-operator", "k", 2>>,
       Blank,
       <<"define-pn-overlaps", postfix>>,
       Blank >>

\* the source lines, up to the first id that has no source (a KeyError)
RECURSIVE SourceLines(_, _)
SourceLines(srcs, ids) ==
    IF ids = <<>> \/ Head(ids) \notin DOMAIN srcs THEN <<>>
    ELSE <<get_h2mixer_line(srcs[Head(ids)], Head(ids))>>
         \o SourceLines(srcs, Tail(ids))

RECURSIVE AddSourceLines_SkipZero(_)
AddSourceLines_SkipZero(operator) ==
    IF operator = <<>> THEN <<>>
    ELSE (IF Head(operator)[2] = 0 THEN <<>>
          ELSE << <<"add-source", Head(operator)[1], Head(operator)[2]>> >>)
         \o AddSourceLines_SkipZero(Tail(operator))

RECURSIVE AddSourceLines(_)
AddSourceLines(operator) ==
    IF operator = <<>> THEN <<>>
    ELSE << <<"add-source", Head(operator)[1], Head(operator)[2]>> >>
         \o AddSourceLines(Tail(operator))

RECURSIVE TargetLines(_)
TargetLines(tg) ==
    IF tg = <<>> THEN <<>>
    ELSE << <<"define-target", postfix, Head(tg)[1]>> >>
         \o AddSourceLines(Head(tg)[2])
         \o <<Blank>>
         \o TargetLines(Tail(tg))

(***************************************************************************)
(* The tasks generate_tbme is run on.                                      *)
(***************************************************************************)
\* sequences over S of length at most n
SeqUpTo(S, n) == UNION {[1..k -> S] : k \in 0..n}

ParamKeys == {"Nv", "Nmax", "sp_weight_max", "mb_weight_max"}

TruncationParameters == UNION {[K -> 0..MaxParam] : K \in SUBSET ParamKeys}

\* caller-supplied operators, some with a zero coefficient
UserOperators == { << <<"VNN", 2>> >>,
                   << <<"Vuser", 0>>, <<"VNN", 3>> >> }

UserHamiltonians == UserOperators \cup { << <<"Vuser", 2>>, <<"VNN", 0>> >> }

Basenames == {"H", "Ncm", "Trel", "obs"}

UserFile == <<"file", "user.bin">>

UserSourceIds == {"L2", "VC_unscaled", "VNN", "Vuser"}

UserSources == {TwoBodyOperatorSource(UserFile, None, None),
                TwoBodyOperatorSource(None, None, None)}

BaseTask ==
    [nuclide |-> <<2, 2>>, hw |-> 20, hw_int |-> 20, hw_coul |-> 20,
     basis_mode |-> "kDirect", use_coulomb |-> TRUE, h2_format |-> 15099,
     hamiltonian |-> None, tb_observables |-> None, observable_sets |-> {},
     target_truncation |-> None,
     sp_truncation_mode |-> "kNmax", mb_truncation_mode |-> "kNmax",
     truncation_parameters |-> [k \in {"Nv", "Nmax"} |-> 1],
     interaction |-> "JISP16",
     truncation_int |-> <<"tb", 6>>, truncation_coul |-> <<"tb", 4>>,
     xform_truncation_int |-> None, xform_truncation_coul |-> None,
     interaction_file |-> None, coulomb_file |-> None,
     tbme_sources |-> << <<"Vuser", TwoBodyOperatorSource(UserFile, None, None)>> >>]

BasisModes == {"kDirect", "kDilated", "kGeneric"}

\* tasks that vary the truncation scheme and the hw check
TruncationTask(t) ==
    \E bm \in BasisModes, hwi \in {20, 25},
       sp \in {"kNmax", "kTriangular"}, mb \in {"kNmax", "kWeightMax", "kFCI"},
       tp \in TruncationParameters, tt \in {None, <<"tb", 2>>} :
        t = [BaseTask EXCEPT !.basis_mode = bm, !.hw_int = hwi,
                             !.sp_truncation_mode = sp, !.mb_truncation_mode = mb,
                             !.truncation_parameters = tp, !.target_truncation = tt]

\* tasks that vary the source resolution
SourceTask(t) ==
    \E bm \in BasisModes, uc \in BOOLEAN,
       h \in {None, << <<"L2", 2>>, <<"VNN", 2>> >>,
              << <<"Vuser", 2>>, <<"VNN", 2>> >>, << <<"VC_unscaled", 2>> >>},
       f \in {<<None, None>>, <<UserFile, <<"file", "VC.bin">> >>},
       x \in {<<None, None>>, << <<"tb", 8>>, <<"tb", 10>> >>},
       us \in SeqUpTo(UserSourceIds \X UserSources, MaxUserSources) :
        t = [BaseTask EXCEPT !.basis_mode = bm, !.use_coulomb = uc, !.hamiltonian = h,
                             !.interaction_file = f[1], !.coulomb_file = f[2],
                             !.xform_truncation_int = x[1],
                             !.xform_truncation_coul = x[2],
                             !.tbme_sources = us]

\* tasks that vary the targets
TargetTask(t) ==
    \E h \in {None} \cup UserHamiltonians,
       obs \in SeqUpTo(Basenames \X UserOperators, MaxObs),
       os \in SUBSET {"H-components", "am-sqr", "isospin"} :
        t = [BaseTask EXCEPT !.hamiltonian = h, !.tb_observables = obs,
                             !.observable_sets = os]

(***************************************************************************)
(* generate_tbme as a state machine.                                       *)
(***************************************************************************)
Init ==
    /\ TruncationTask(task) \/ SourceTask(task) \/ TargetTask(task)
    /\ pc = "sanity"
    /\ targets = <<>>
    /\ required_sources = {}
    /\ tbme_sources = <<>>
    /\ lines = <<>>
    /\ raised = NoError
    /\ h2mixer_file = None
    /\ work_dir = FALSE
    /\ h2mixer_stdin = None

\* sanity check on hw
SanityCheck ==
    /\ pc = "sanity"
    /\ IF HwInconsistent(task)
       THEN pc' = "raised" /\ raised' = "ScriptError"
       ELSE pc' = "targets" /\ raised' = raised
    /\ UNCHANGED <<task, targets, required_sources, tbme_sources, lines,
                   h2mixer_file, work_dir, h2mixer_stdin>>

\* accumulate h2mixer targets, get set of required sources, initial comment
AccumulateTargets ==
    /\ pc = "targets"
    /\ targets' = Targets(task)
    /\ required_sources' = RequiredSources(targets', task)
    /\ lines' = HeaderLines
    /\ pc' = "modes"
    /\ UNCHANGED <<task, tbme_sources, raised, h2mixer_file, work_dir,
                   h2mixer_stdin>>

\* global mode definitions
GlobalModeDefinitions ==
    /\ pc = "modes"
    /\ LET r == TargetWeightMax(task) IN
       IF r.raised # NoError
       THEN pc' = "raised" /\ raised' = r.raised /\ lines' = lines
       ELSE /\ pc' = "radial"
            /\ raised' = raised
            /\ lines' = lines \o GlobalLines(task, r.value)
    /\ UNCHANGED <<task, targets, required_sources, tbme_sources,
                   h2mixer_file, work_dir, h2mixer_stdin>>

\* radial operator inputs, pn overlap input
RadialInputs ==
    /\ pc = "radial"
    /\ lines' = lines \o RadialLines
    /\ pc' = "sources"
    /\ UNCHANGED <<task, targets, required_sources, tbme_sources, raised,
                   h2mixer_file, work_dir, h2mixer_stdin>>

\* sources: defaults, user overrides, h2mixer input
Sources ==
    /\ pc = "sources"
    /\ tbme_sources' = ApplyUserSources(DefaultSources(task, required_sources),
                                        task.tbme_sources)
    /\ IF required_sources \subseteq DOMAIN tbme_sources'
       THEN /\ lines' = lines \o SourceLines(tbme_sources', sorted(required_sources))
                              \o <<Blank>>
            /\ pc' = "target_lines"
            /\ raised' = raised
       ELSE /\ lines' = lines \o SourceLines(tbme_sources', sorted(required_sources))
            /\ pc' = "raised"
            /\ raised' = "KeyError"
    /\ UNCHANGED <<task, targets, required_sources, h2mixer_file, work_dir,
                   h2mixer_stdin>>

\* targets: h2mixer input, terminal line
TargetBlocks ==
    /\ pc = "target_lines"
    /\ lines' = lines \o TargetLines(targets) \o <<Blank>>
    /\ pc' = "write"
    /\ UNCHANGED <<task, targets, required_sources, tbme_sources, raised,
                   h2mixer_file, work_dir, h2mixer_stdin>>

\* diagnostic: log input lines to file
WriteInput ==
    /\ pc = "write"
    /\ h2mixer_file' = lines
    /\ pc' = "mkdir"
    /\ UNCHANGED <<task, targets, required_sources, tbme_sources, lines,
                   raised, work_dir, h2mixer_stdin>>

\* create work directory
MakeWorkDir ==
    /\ pc = "mkdir"
    /\ work_dir' = TRUE
    /\ pc' = "invoke"
    /\ UNCHANGED <<task, targets, required_sources, tbme_sources, lines,
                   raised, h2mixer_file, h2mixer_stdin>>

\* invoke h2mixer
InvokeH2mixer ==
    /\ pc = "invoke"
    /\ h2mixer_stdin' = lines
    /\ pc' = "done"
    /\ UNCHANGED <<task, targets, required_sources, tbme_sources, lines,
                   raised, h2mixer_file, work_dir>>

Next ==
    \/ SanityCheck
    \/ AccumulateTargets
    \/ GlobalModeDefinitions
    \/ RadialInputs
    \/ Sources
    \/ TargetBlocks
    \/ WriteInput
    \/ MakeWorkDir
    \/ InvokeH2mixer

Spec == Init /\ [][Next]_vars

(***************************************************************************)
(* Reading the script.                                                     *)
(***************************************************************************)
LineIdx(keyword) == {i \in 1..Len(lines) : lines[i][1] = keyword}

\* the whole script has been compiled
Compiled == pc \in {"write", "mkdir", "invoke", "done"}

\* the global mode definitions have been evaluated
ModesEvaluated == Len(lines) >= Len(HeaderLines) /\ pc # "modes"

\* the source resolution has been evaluated
SourcesEvaluated ==
    /\ Len(lines) >= Len(HeaderLines) + 5 + Len(RadialLines)
    /\ pc # "sources"

\* the script holds exactly one set-target-indexing line, with this bound
OnlyIndexing(bound) ==
    /\ Cardinality(LineIdx("set-target-indexing")) = 1
    /\ \A i \in LineIdx("set-target-indexing") : lines[i][3] = bound

DeclaredIds == {lines[i][2] : i \in LineIdx("define-source")}

AddedIds == {lines[i][2] : i \in LineIdx("add-source")}

\* the one declaration line of id carries exactly this descriptor
DeclaredAs(id, source) ==
    /\ Cardinality({i \in LineIdx("define-source") : lines[i][2] = id}) = 1
    /\ \A i \in LineIdx("define-source") :
           lines[i][2] = id => lines[i] = get_h2mixer_line(source, id)

\* the caller's descriptor for id: the last entry of that id
UserSource(id) ==
    LET I == {i \in 1..Len(task.tbme_sources) : task.tbme_sources[i][1] = id}
        m == CHOOSE i \in I : \A j \in I : j <= i
    IN  task.tbme_sources[m][2]

Nothing == [raised |-> "unset", value |-> None]

(***************************************************************************)
(* C1: with no explicit target_truncation, the bound on the                *)
(* set-target-indexing line is (Nv+Nmax, 2*Nv+Nmax) for Nmax/Nmax,         *)
(* ("ob", Nmax) for Nmax/FCI, ("ob", sp_weight_max) for weight/FCI and     *)
(* (sp_weight_max, min(mb_weight_max, 2*sp_weight_max)) for weight/weight, *)
(* for every value of the truncation parameters.                           *)
(***************************************************************************)
C1_Expected ==
    LET tp == task.truncation_parameters
        sp == task.sp_truncation_mode
        mb == task.mb_truncation_mode
    IN  IF sp = "kNmax" /\ mb = "kNmax" /\ {"Nv", "Nmax"} \subseteq DOMAIN tp
        THEN Value(<<"pair", tp["Nv"] + tp["Nmax"], 2*tp["Nv"] + tp["Nmax"]>>)
        ELSE IF sp = "kNmax" /\ mb = "kFCI" /\ "Nmax" \in DOMAIN tp
        THEN Value(<<"ob", tp["Nmax"]>>)
        ELSE IF sp = "kTriangular" /\ mb = "kFCI" /\ "sp_weight_max" \in DOMAIN tp
        THEN Value(<<"ob", tp["sp_weight_max"]>>)
        ELSE IF /\ sp = "kTriangular" /\ mb = "kWeightMax"
                /\ {"sp_weight_max", "mb_weight_max"} \subseteq DOMAIN tp
        THEN Value(<<"pair", tp["sp_weight_max"],
                     IF tp["mb_weight_max"] <= 2*tp["sp_weight_max"]
                     THEN tp["mb_weight_max"] ELSE 2*tp["sp_weight_max"]>>)
        ELSE Nothing

C1_DocumentedBounds ==
    (ModesEvaluated /\ task.target_truncation = None
                    /\ C1_Expected.raised = NoError)
    => OnlyIndexing(weight_max_string(C1_Expected.value))

C1_Witness ==
    /\ pc = "done"
    /\ task.target_truncation = None
    /\ task.sp_truncation_mode = "kTriangular"
    /\ task.mb_truncation_mode = "kWeightMax"
    /\ DOMAIN task.truncation_parameters = ParamKeys
    /\ task.truncation_parameters["mb_weight_max"]
           > 2 * task.truncation_parameters["sp_weight_max"]
    /\ LineIdx("set-target-indexing") # {}

(***************************************************************************)
(* C2: with no explicit target_truncation, every mode pair other than the  *)
(* four documented ones fails with a configuration error: no               *)
(* set-target-indexing line, no diagnostic script, no mixer invocation.    *)
(***************************************************************************)
DocumentedModes ==
    {<<"kNmax", "kNmax">>, <<"kNmax", "kFCI">>,
     <<"kTriangular", "kFCI">>, <<"kTriangular", "kWeightMax">>}

C2_UnsupportedModesFail ==
    (/\ ModesEvaluated
     /\ task.target_truncation = None
     /\ <<task.sp_truncation_mode, task.mb_truncation_mode>> \notin DocumentedModes)
    => /\ pc = "raised"
       /\ raised # NoError
       /\ LineIdx("set-target-indexing") = {}
       /\ h2mixer_file = None
       /\ h2mixer_stdin = None

(***************************************************************************)
(* C3: an explicit target_truncation is the bound of the                   *)
(* set-target-indexing line whatever the truncation modes and parameters;  *)
(* the mode-based resolution raises nothing.                               *)
(***************************************************************************)
C3_ExplicitBoundVerbatim ==
    (ModesEvaluated /\ task.target_truncation # None)
    => /\ OnlyIndexing(weight_max_string(task.target_truncation))
       /\ ~(pc = "raised" /\ lines = HeaderLines)

C3_Witness ==
    /\ pc = "done"
    /\ task.target_truncation # None
    /\ task.sp_truncation_mode = "kNmax"
    /\ task.mb_truncation_mode = "kWeightMax"
    /\ DOMAIN task.truncation_parameters = {}
    /\ LineIdx("set-target-indexing") # {}

(***************************************************************************)
(* C4: a required source-id with an entry in the caller's tbme_sources is  *)
(* declared from the caller's descriptor alone, whatever the id and the    *)
(* basis mode; a required source-id without an entry keeps its default.    *)
(***************************************************************************)
C4_OverridesReplace ==
    (SourcesEvaluated /\ pc # "raised")
    => \A id \in required_sources :
           IF id \in keys(task.tbme_sources)
           THEN DeclaredAs(id, UserSource(id))
           ELSE DeclaredAs(id, DefaultSources(task, required_sources)[id])

C4_Witness ==
    /\ pc = "done"
    /\ task.basis_mode = "kGeneric"
    /\ {"VNN", "L2"} \subseteq required_sources \cap keys(task.tbme_sources)
    /\ UserSource("VNN") = TwoBodyOperatorSource(UserFile, None, None)
    /\ DefaultSources(task, required_sources)["VNN"].xform_filename # None
    /\ DeclaredAs("VNN", UserSource("VNN"))

(***************************************************************************)
(* C5: by default VNN is a plain file under the direct basis mode and      *)
(* carries a transform file and truncation under the dilated and           *)
(* transformed modes; VC_unscaled is a plain file under the direct and     *)
(* dilated modes and carries a transform only under the transformed mode.  *)
(* The transform truncation is xform_truncation_int (coul) when given,     *)
(* else truncation_int (coul); the file is interaction_file (coulomb_file) *)
(* when given, else the default path.                                      *)
(***************************************************************************)
C5_ExpectedVNN ==
    [filename |-> IF task.interaction_file # None THEN task.interaction_file
                  ELSE interaction_filename(task.interaction, task.truncation_int,
                                            task.hw_int),
     xform_filename |-> IF task.basis_mode \in {"kDilated", "kGeneric"}
                        THEN radial_olap_int_filename(postfix) ELSE None,
     xform_truncation |-> IF task.basis_mode \in {"kDilated", "kGeneric"}
                          THEN IF task.xform_truncation_int # None
                               THEN task.xform_truncation_int
                               ELSE task.truncation_int
                          ELSE None]

C5_ExpectedVC ==
    [filename |-> IF task.coulomb_file # None THEN task.coulomb_file
                  ELSE interaction_filename("VC", task.truncation_coul,
                                            task.hw_coul),
     xform_filename |-> IF task.basis_mode = "kGeneric"
                        THEN radial_olap_coul_filename(postfix) ELSE None,
     xform_truncation |-> IF task.basis_mode = "kGeneric"
                          THEN IF task.xform_truncation_coul # None
                               THEN task.xform_truncation_coul
                               ELSE task.truncation_coul
                          ELSE None]

C5_DefaultDescriptors ==
    (SourcesEvaluated /\ pc # "raised")
    => /\ ("VNN" \in required_sources \ keys(task.tbme_sources))
              => DeclaredAs("VNN", C5_ExpectedVNN)
       /\ ("VC_unscaled" \in required_sources \ keys(task.tbme_sources))
              => DeclaredAs("VC_unscaled", C5_ExpectedVC)

C5_Witness ==
    /\ pc = "done"
    /\ task.basis_mode = "kDilated"
    /\ {"VNN", "VC_unscaled"} \subseteq required_sources \ keys(task.tbme_sources)
    /\ task.xform_truncation_int = None
    /\ task.coulomb_file # None
    /\ DeclaredAs("VNN", C5_ExpectedVNN)
    /\ DeclaredAs("VC_unscaled", C5_ExpectedVC)

(***************************************************************************)
(* C6: in a compiled script the declared source-ids are exactly the        *)
(* source-ids of the add-source lines (the union over the target           *)
(* operators), each declared once, in ascending order of id, before the    *)
(* first define-target line; an id no target references is not declared.   *)
(***************************************************************************)
C6_DeclaredEqualsRequired ==
    Compiled
    => /\ DeclaredIds = AddedIds
       /\ DeclaredIds = UNION {keys(targets[k][2]) : k \in 1..Len(targets)}
       /\ \A i, j \in LineIdx("define-source") :
              i < j => Rank(lines[i][2]) < Rank(lines[j][2])
       /\ \A i \in LineIdx("define-source"), j \in LineIdx("define-target") : i < j
       /\ \A i \in LineIdx("add-source") :
              \E j \in LineIdx("define-source") : j < i /\ lines[j][2] = lines[i][2]

C6_Witness ==
    /\ pc = "done"
    /\ "L2" \in keys(task.tbme_sources)
    /\ "L2" \notin DeclaredIds
    /\ "VNN" \notin DeclaredIds
    /\ "VC_unscaled" \in DeclaredIds
    /\ Cardinality(DeclaredIds) >= 3

(***************************************************************************)
(* C7: with basis_mode direct and hw # hw_int generate_tbme fails with a   *)
(* configuration error before any script line is produced: no script       *)
(* file, no work directory, no mixer invocation.  Under the dilated and    *)
(* transformed modes hw # hw_int raises no error.                          *)
(***************************************************************************)
C7_HwCheck ==
    /\ (task.basis_mode = "kDirect" /\ task.hw # task.hw_int /\ pc # "sanity")
       => /\ pc = "raised"
          /\ raised = "ScriptError"
          /\ lines = <<>>
          /\ h2mixer_file = None
          /\ ~work_dir
          /\ h2mixer_stdin = None
    /\ (task.basis_mode \in {"kDilated", "kGeneric"} /\ pc # "sanity")
       => Len(lines) >= Len(HeaderLines) \/ pc = "targets"

C7_Witness ==
    /\ pc = "raised"
    /\ raised = "ScriptError"
    /\ task.basis_mode = "kDirect"
    /\ task.hw = 20
    /\ task.hw_int = 25
    /\ lines = <<>>

(***************************************************************************)
(* C8: a required source-id that is no mixer built-in, not VNN, not        *)
(* VC_unscaled and has no entry in the caller's tbme_sources makes         *)
(* generate_tbme fail with a configuration error, the error kind of the    *)
(* hw and truncation-mode failures, and the mixer is not invoked.          *)
(***************************************************************************)
Unresolvable ==
    required_sources \ (k_h2mixer_builtin_operators \cup {"VNN", "VC_unscaled"}
                        \cup keys(task.tbme_sources))

C8_UnresolvableSourceIsConfigurationError ==
    (SourcesEvaluated /\ Unresolvable # {})
    => /\ pc = "raised"
       /\ raised = "ScriptError"
       /\ h2mixer_stdin = None

(***************************************************************************)
(* C9 (as stated): each target block is a define-target line, one          *)
(* add-source line per nonzero term of the target's operator, in the       *)
(* operator's order, and a blank line; a zero term produces no line.       *)
(* C9 (amended): each target block is a define-target line, one            *)
(* add-source line per term of the target's operator, zero or not, in the  *)
(* operator's order, and a blank line.                                     *)
(***************************************************************************)
AllTerms(operator) == operator

NonzeroTerms(operator) == SelectSeq(operator, LAMBDA term : term[2] # 0)

FirstTargetLine ==
    CHOOSE i \in LineIdx("define-target") :
        \A j \in LineIdx("define-target") : i <= j

\* where block k starts when each block holds the terms Terms selects
RECURSIVE BlockStart(_, _)
BlockStart(Terms(_), k) ==
    IF k = 1 THEN FirstTargetLine
    ELSE BlockStart(Terms, k - 1) + Len(Terms(targets[k - 1][2])) + 2

BlocksHold(Terms(_)) ==
    /\ Cardinality(LineIdx("define-target")) = Len(targets)
    /\ Cardinality(LineIdx("add-source"))
           = BlockStart(Terms, Len(targets) + 1) - FirstTargetLine - 2 * Len(targets)
    /\ \A k \in 1..Len(targets) :
           LET s  == BlockStart(Terms, k)
               op == Terms(targets[k][2])
           IN  /\ s + Len(op) + 1 <= Len(lines)
               /\ lines[s][1] = "define-target"
               /\ lines[s][3] = targets[k][1]
               /\ \A j \in 1..Len(op) :
                      /\ lines[s + j][1] = "add-source"
                      /\ lines[s + j][2] = op[j][1]
                      /\ lines[s + j][3] = op[j][2]
               /\ lines[s + Len(op) + 1] = Blank

C9_OneLinePerNonzeroTerm == Compiled => BlocksHold(NonzeroTerms)

C9_OneLinePerTerm == Compiled => BlocksHold(AllTerms)

C9_Witness ==
    /\ pc = "done"
    /\ task.hamiltonian # None
    /\ \E j \in 1..Len(task.hamiltonian) : task.hamiltonian[j][2] = 0
    /\ \E n \in 1..Len(task.tb_observables) :
           \E j \in 1..Len(task.tb_observables[n][2]) :
               task.tb_observables[n][2][j][2] = 0
    /\ \E i \in LineIdx("add-source") : lines[i][3] = 0

(***************************************************************************)
(* C10: every caller-supplied operator reaches the script as given: the    *)
(* block of tbme-<basename> holds exactly the terms of each                *)
(* (basename, operator) of tb_observables, the block of tbme-H exactly     *)
(* the caller's hamiltonian, for every observable_sets and every           *)
(* basename, built-in target names included; each target has one block.    *)
(***************************************************************************)
BlocksOf(name) == {i \in LineIdx("define-target") : lines[i][3] = name}

\* the terms of the add-source lines from line i on
RECURSIVE TermsFrom(_)
TermsFrom(i) ==
    IF i > Len(lines) \/ lines[i][1] # "add-source" THEN <<>>
    ELSE << <<lines[i][2], lines[i][3]>> >> \o TermsFrom(i + 1)

BlockIs(name, operator) ==
    /\ Cardinality(BlocksOf(name)) = 1
    /\ \A i \in BlocksOf(name) : TermsFrom(i + 1) = operator

C10_UserOperatorsAsGiven ==
    pc = "done"
    => /\ \A n \in 1..Len(task.tb_observables) :
              BlockIs(tbme(task.tb_observables[n][1]), task.tb_observables[n][2])
       /\ task.hamiltonian # None => BlockIs(tbme("H"), task.hamiltonian)

====
